---- MODULE Spec2Model ----
(***************************************************************************)
(* Debate chatbot (tactical_empathy/mirror): the prompt/context layer, the *)
(* provider singleton and the two request handlers that drive them.        *)
(*                                                                         *)
(* Text is modelled character by character: a Python str is a sequence of  *)
(* one-character strings, so strip, startswith, replace, split and slicing *)
(* are computed as Python computes them.                                   *)
(***************************************************************************)
EXTENDS Integers, Sequences, FiniteSets, TLC

(***************************************************************************)
(* Bounds of the model.                                                    *)
(***************************************************************************)
\* an upstream text is a concatenation of at most MaxSegs segments
MaxSegs == 3
\* a topic or stance field of a labelled reply is a concatenation of at most
\* MaxFieldSegs segments
MaxFieldSegs == 2
\* the longest message history a prompt is built from
MaxHist == 11
\* threads calling get_openai_provider, and calls each of them makes
NCallers == 2
MaxCalls == 2
\* reset_openai_provider calls
MaxResets == 1
\* request threads, requests received, update_conversation calls
NThreads == 2
MaxRequests == 2
MaxEdits == 1
MaxStoreOps == 5
MaxConversations == 2

(***************************************************************************)
(* Program constants.                                                      *)
(***************************************************************************)
\* message[:60] in the fallback stance
TruncLen == 60
\* conversation_history[-10:] in OpenAIProvider._build_user_prompt
PromptWindow == 10
\* messages[-7:] in DebateBot.generate_response and in
\* DebateAIProvider._build_user_prompt
BotWindow == 7
\* message[:50] in DebateAIProvider.parse_initial_message
LegacyTruncLen == 50
\* getattr(settings, 'AI_MAX_TOKENS', 500)
AI_MAX_TOKENS == 500
\* {max_tokens - 100} in OpenAIProvider._build_system_prompt
TokenReserve == 100

VARIABLES
  arg,               \* the arguments a pure function is applied to
  res,               \* its result (NoResult before it ran)
  settings,          \* django.conf.settings: OPENAI_API_KEY, TESTING
  _openai_provider,  \* the module global: None or the instance it holds
  built,             \* the OpenAIProvider instances constructed so far
  resets,            \* reset_openai_provider calls so far
  serial,            \* TRUE when get_openai_provider calls do not overlap
  ncalls,            \* get_openai_provider calls started so far
  caller,            \* each calling thread's position in get_openai_provider
  _ai_provider,      \* ai_providers' module global: None or its instance
  conversations,     \* the conversations table, in creation order
  messages,          \* the messages table, ordered by created_at
  nreq,              \* requests received so far
  nedits,            \* update_conversation calls so far
  th                 \* each request thread: its request and its locals

pureVars == <<arg, res>>
providerVars == <<settings, _openai_provider, built, resets, serial, ncalls, caller>>
mainVars == <<_ai_provider, conversations, messages, nreq, nedits, th>>
vars == <<arg, res, settings, _openai_provider, built, resets, serial, ncalls,
          caller, _ai_provider, conversations, messages, nreq, nedits, th>>

NoResult == [kind |-> "pending"]
None == "None"

(***************************************************************************)
(* Python str operations.                                                  *)
(***************************************************************************)
IsSpace(c) == c \in {" ", "\n"}

\* s[n:]
Drop(s, n) == IF n >= Len(s) THEN <<>> ELSE SubSeq(s, n + 1, Len(s))

\* s[:n]
Take(s, n) == IF n >= Len(s) THEN s ELSE SubSeq(s, 1, n)

RECURSIVE LStrip(_)
LStrip(s) == IF s # <<>> /\ IsSpace(Head(s)) THEN LStrip(Tail(s)) ELSE s

RECURSIVE RStrip(_)
RStrip(s) ==
  IF s # <<>> /\ IsSpace(s[Len(s)]) THEN RStrip(SubSeq(s, 1, Len(s) - 1)) ELSE s

\* str.strip()
Strip(s) == RStrip(LStrip(s))

\* str.startswith(p)
StartsWith(s, p) == Len(p) <= Len(s) /\ SubSeq(s, 1, Len(p)) = p

\* sub in s
Contains(s, sub) ==
  \E i \in 0..(Len(s) - Len(sub)) : SubSeq(s, i + 1, i + Len(sub)) = sub

\* str.replace(old, ""): leftmost non-overlapping occurrences, one pass
RECURSIVE Remove(_, _)
Remove(s, old) ==
  IF s = <<>> THEN <<>>
  ELSE IF StartsWith(s, old) THEN Remove(Drop(s, Len(old)), old)
  ELSE <<Head(s)>> \o Remove(Tail(s), old)

\* the index of the first occurrence of the character c in s, 0 when absent
RECURSIVE IndexOf(_, _, _)
IndexOf(s, c, i) ==
  IF i > Len(s) THEN 0 ELSE IF s[i] = c THEN i ELSE IndexOf(s, c, i + 1)

\* a plausible bug: the split is not limited to the first separator
SplitEvery(s, c) ==
  LET i == IndexOf(s, c, 1)
  IN IF i = 0 THEN <<s>>
     ELSE LET rest == Drop(s, i)
              j == IndexOf(rest, c, 1)
          IN <<Take(s, i - 1), IF j = 0 THEN rest ELSE Take(rest, j - 1)>>

\* str.split(c, 1): one part when c is absent, else the text before and after
\* the first c
Split1(s, c) ==
  LET i == IndexOf(s, c, 1)
  IN IF i = 0 THEN <<s>> ELSE <<Take(s, i - 1), Drop(s, i)>>

\* str.split(c): every part between occurrences of c
RECURSIVE SplitAll(_, _)
SplitAll(s, c) ==
  LET i == IndexOf(s, c, 1)
  IN IF i = 0 THEN <<s>> ELSE <<Take(s, i - 1)>> \o SplitAll(Drop(s, i), c)

RECURSIVE Concat(_)
Concat(ss) == IF ss = <<>> THEN <<>> ELSE Head(ss) \o Concat(Tail(ss))

\* every concatenation of at most n segments drawn from segs
RECURSIVE Texts(_, _)
Texts(segs, n) ==
  IF n = 0 THEN {<<>>}
  ELSE LET shorter == Texts(segs, n - 1)
       IN shorter \cup {t \o g : t \in shorter, g \in segs}

(***************************************************************************)
(* OpenAIError and the outcomes of a call.                                 *)
(***************************************************************************)
Ok(v) == [kind |-> "ok", value |-> v]
Raise(e) == [kind |-> "raise", exc |-> e]

\* what client.chat.completions.create can do: raise, or return a completion
\* whose choices are empty, whose message content is None, or is a text
UpstreamOutcomes(texts) ==
  {[kind |-> "raise", exc |-> e] :
      e \in {"APIConnectionError", "AuthenticationError", "RateLimitError"}}
  \cup {[kind |-> "nochoices"], [kind |-> "none"]}
  \cup {[kind |-> "text", text |-> t] : t \in texts}

(***************************************************************************)
(* OpenAIProvider._post_process_response                                   *)
(***************************************************************************)
prefixes_to_remove ==
  << <<"A", "I", ":">>,
     <<"B", "o", "t", ":">>,
     <<"A", "s", "s", "i", "s", "t", "a", "n", "t", ":">>,
     <<"R", "e", "s", "p", "o", "n", "s", "e", ":">>,
     <<"Y", "O", "U", ":">>,
     <<"B", "O", "T", ":">>,
     <<"K", "o", "p", "i", ":">> >>

\* a plausible bug: a listed prefix is removed wherever it occurs
RECURSIVE StripPrefixesAnywhere(_, _, _, _)
StripPrefixesAnywhere(prefixes, cleaned, stripped, i) ==
  IF i > Len(prefixes) THEN [text |-> cleaned, stripped |-> stripped]
  ELSE IF Contains(cleaned, prefixes[i])
       THEN StripPrefixesAnywhere(prefixes,
              Strip(Remove(cleaned, prefixes[i])), Append(stripped, i), i + 1)
       ELSE StripPrefixesAnywhere(prefixes, cleaned, stripped, i + 1)

\* a plausible bug: keep stripping while any listed prefix still leads
RECURSIVE StripPrefixesRescan(_, _, _, _)
StripPrefixesRescan(prefixes, cleaned, stripped, i) ==
  IF i > Len(prefixes) THEN [text |-> cleaned, stripped |-> stripped]
  ELSE IF StartsWith(cleaned, prefixes[i])
       THEN StripPrefixesRescan(prefixes,
              Strip(Drop(cleaned, Len(prefixes[i]))), Append(stripped, i), 1)
       ELSE StripPrefixesRescan(prefixes, cleaned, stripped, i + 1)

\* for prefix in prefixes: if cleaned.startswith(prefix): cleaned =
\* cleaned[len(prefix):].strip(), from list position i on; stripped records
\* the list positions of the prefixes the loop removed
RECURSIVE StripPrefixes(_, _, _, _)
StripPrefixes(prefixes, cleaned, stripped, i) ==
  IF i > Len(prefixes) THEN [text |-> cleaned, stripped |-> stripped]
  ELSE IF StartsWith(cleaned, prefixes[i])
       THEN StripPrefixes(prefixes,
              Strip(Drop(cleaned, Len(prefixes[i]))), Append(stripped, i), i + 1)
       ELSE StripPrefixes(prefixes, cleaned, stripped, i + 1)

\* a plausible bug: the final validation is missing
PostProcessNoFinalCheck(response) ==
  IF response = <<>> \/ Strip(response) = <<>>
  THEN [kind |-> "raise", exc |-> "OpenAIError", stripped |-> <<>>]
  ELSE LET r == StripPrefixes(prefixes_to_remove, Strip(response), <<>>, 1)
       IN [kind |-> "ok", value |-> r.text, stripped |-> r.stripped]

_post_process_response(response) ==
  IF response = <<>> \/ Strip(response) = <<>>
  THEN [kind |-> "raise", exc |-> "OpenAIError", stripped |-> <<>>]
  ELSE LET r == StripPrefixes(prefixes_to_remove, Strip(response), <<>>, 1)
       IN IF r.text = <<>>
          THEN [kind |-> "raise", exc |-> "OpenAIError", stripped |-> r.stripped]
          ELSE [kind |-> "ok", value |-> r.text, stripped |-> r.stripped]

(***************************************************************************)
(* OpenAIProvider._generate_openai_response and generate_response          *)
(***************************************************************************)
\* the try body: the call, choices[0].message.content, the empty check, strip
GenerateTryBody(outcome) ==
  CASE outcome.kind = "raise" -> Raise(outcome.exc)
    [] outcome.kind = "nochoices" -> Raise("IndexError")
    [] outcome.kind = "none" -> Raise("OpenAIError")
    [] outcome.kind = "text" ->
         IF outcome.text = <<>> THEN Raise("OpenAIError")
         ELSE Ok(Strip(outcome.text))

\* except Exception as e: raise OpenAIError(...)
_generate_openai_response(outcome) ==
  LET r == GenerateTryBody(outcome)
  IN IF r.kind = "raise" THEN Raise("OpenAIError") ELSE r

\* try: prompts, call, post-process; except OpenAIError: raise;
\* except Exception: raise OpenAIError
generate_response(outcome) ==
  LET g == _generate_openai_response(outcome)
      r == IF g.kind = "raise" THEN g
           ELSE LET p == _post_process_response(g.value)
                IN IF p.kind = "ok" THEN Ok(p.value) ELSE Raise(p.exc)
  IN IF r.kind = "raise" /\ r.exc # "OpenAIError" THEN Raise("OpenAIError")
     ELSE r

(***************************************************************************)
(* OpenAIProvider.parse_initial_message                                    *)
(***************************************************************************)
TOPIC == <<"T", "O", "P", "I", "C", ":">>
STANCE == <<"S", "T", "A", "N", "C", "E", ":">>
GeneralDebate ==
  <<"G", "e", "n", "e", "r", "a", "l", " ", "D", "e", "b", "a", "t", "e">>
IDisagreeWith ==
  <<"I", " ", "d", "i", "s", "a", "g", "r", "e", "e", " ", "w", "i", "t", "h",
    ":", " ">>
Ellipsis == <<".", ".", ".">>

\* return "General Debate", f"I disagree with: {message[:60]}..."
FallbackPair(message) ==
  [topic |-> GeneralDebate,
   stance |-> IDisagreeWith \o Take(message, TruncLen) \o Ellipsis]

\* the try body of parse_initial_message
ParseTryBody(message, outcome) ==
  CASE outcome.kind = "raise" -> Raise(outcome.exc)
    [] outcome.kind = "nochoices" -> Raise("IndexError")
    [] outcome.kind = "none" -> Raise("AttributeError")
    [] outcome.kind = "text" ->
         LET ai_response == Strip(outcome.text)
         IN IF Contains(ai_response, TOPIC) /\ Contains(ai_response, STANCE)
            THEN LET parts == Split1(ai_response, "|")
                 IN IF Len(parts) < 2 THEN Raise("IndexError")
                    ELSE LET topic == Strip(Remove(parts[1], TOPIC))
                             stance == Strip(Remove(parts[2], STANCE))
                         IN IF topic # <<>> /\ stance # <<>>
                            THEN Ok([topic |-> topic, stance |-> stance])
                            ELSE Ok(FallbackPair(message))
            ELSE Ok(FallbackPair(message))

\* except Exception as e: raise OpenAIError(...)
parse_initial_message(message, outcome) ==
  LET r == ParseTryBody(message, outcome)
  IN IF r.kind = "raise" THEN Raise("OpenAIError") ELSE r

(***************************************************************************)
(* Prompt building: the history window and the user prompt.                *)
(***************************************************************************)
ConversationHistoryHeader ==
  <<"C", "O", "N", "V", "E", "R", "S", "A", "T", "I", "O", "N", " ", "H",
    "I", "S", "T", "O", "R", "Y", ":">>
CurrentUserMessageHeader ==
  <<"C", "U", "R", "R", "E", "N", "T", " ", "U", "S", "E", "R", " ", "M",
    "E", "S", "S", "A", "G", "E", " ", "(", "r", "e", "s", "p", "o", "n",
    "d", " ", "i", "n", " ", "t", "h", "e", " ", "s", "a", "m", "e", " ",
    "l", "a", "n", "g", "u", "a", "g", "e", ")", ":">>
USER == <<"U", "S", "E", "R">>
YOU == <<"Y", "O", "U">>

\* "\n".join(parts)
RECURSIVE Join(_)
Join(parts) ==
  IF parts = <<>> THEN <<>>
  ELSE IF Len(parts) = 1 THEN parts[1]
  ELSE parts[1] \o <<"\n">> \o Join(Tail(parts))

\* a plausible bug: the first k entries instead of the last k
FirstN(h, k) == Take(h, k)

\* h[-k:] for k > 0: the last k entries, all of h when it has at most k
LastN(h, k) == IF Len(h) <= k THEN h ELSE SubSeq(h, Len(h) - k + 1, Len(h))

\* role_label = "USER" if msg['role'] == 'user' else "YOU";
\* f"{role_label}: {msg['content']}"
RenderTurn(msg) ==
  (IF msg.role = "user" THEN USER ELSE YOU) \o <<":", " ">> \o msg.content

RenderTurns(h) == [i \in 1..Len(h) |-> RenderTurn(h[i])]

\* OpenAIProvider._build_user_prompt
_build_user_prompt(conversation_history, last_user_message) ==
  Join((IF conversation_history # <<>>
        THEN <<ConversationHistoryHeader>>
             \o RenderTurns(LastN(conversation_history, PromptWindow))
             \o << <<>> >>
        ELSE <<>>)
       \o <<CurrentUserMessageHeader,
            USER \o <<":", " ">> \o last_user_message>>)

\* DebateAIProvider._build_user_prompt: the history block alone
LegacyBuildUserPrompt(conversation_history) ==
  Join(IF conversation_history # <<>>
       THEN <<ConversationHistoryHeader>>
            \o RenderTurns(LastN(conversation_history, BotWindow))
            \o << <<>> >>
       ELSE <<>>)

\* DebateBot.generate_response: the context's conversation_history
DebateBotHistory(msgs) ==
  [i \in 1..Len(LastN(msgs, BotWindow)) |->
     [role |-> LastN(msgs, BotWindow)[i].role,
      content |-> LastN(msgs, BotWindow)[i].content]]

(***************************************************************************)
(* Provider lifecycle: OpenAIProvider.__init__ and get_openai_provider.    *)
(***************************************************************************)
Callers == 1..NCallers

PlaceholderKey == "test-key-for-testing"

SettingsSpace == [OPENAI_API_KEY : {None, "sk-configured"}, TESTING : BOOLEAN]

\* a plausible bug: the credential is not validated
InitializeUnchecked(s) ==
  IF s.OPENAI_API_KEY = None /\ s.TESTING THEN Ok(PlaceholderKey)
  ELSE Ok(s.OPENAI_API_KEY)

\* OpenAIProvider._initialize_openai: the api key the client is built with,
\* or OpenAIError when the key is missing outside test mode
_initialize_openai(s) ==
  IF s.OPENAI_API_KEY = None /\ ~s.TESTING THEN Raise("OpenAIError")
  ELSE IF s.OPENAI_API_KEY = None /\ s.TESTING THEN Ok(PlaceholderKey)
  ELSE Ok(s.OPENAI_API_KEY)

\* the n-th OpenAIProvider instance constructed; the global holds one of
\* these or NoProvider (None)
Instance(n) == [id |-> n]
NoProvider == [id |-> 0]

\* a plausible bug: the None test is missing and every call constructs
AlwaysConstruct(p) == TRUE

\* if _openai_provider is None
NeedsConstruction(p) == p = NoProvider

ProviderIdle ==
  /\ settings = [OPENAI_API_KEY |-> "sk-configured", TESTING |-> FALSE]
  /\ _openai_provider = NoProvider
  /\ built = <<>>
  /\ resets = 0
  /\ serial = TRUE
  /\ ncalls = 0
  /\ caller = [t \in Callers |-> [pc |-> "idle", call |-> 0, tmp |-> NoProvider,
                                  returned |-> <<>>]]

PureIdle ==
  /\ arg = [fn |-> "none"]
  /\ res = NoResult

Threads == 1..NThreads

\* conversation_id: Optional[uuid.UUID] = None
NoId == 0
\* a conversation_id that names no stored conversation
\* ('00000000-0000-0000-0000-000000000000' in the tests)
UnknownId == -1

IdleThread ==
  [pc |-> "idle", rid |-> 0, view |-> "none", data_message |-> <<>>,
   user_message |-> <<>>, conversation_id |-> NoId, first |-> FALSE,
   topic |-> <<>>, bot_stance |-> <<>>, history |-> <<>>, response |-> <<>>,
   status |-> 0, calls |-> <<>>, genFailed |-> FALSE,
   extracted |-> [topic |-> <<>>, bot_stance |-> <<>>], seen |-> <<>>]

MainIdle ==
  /\ _ai_provider = NoProvider
  /\ conversations = <<>>
  /\ messages = <<>>
  /\ nreq = 0
  /\ nedits = 0
  /\ th = [t \in Threads |-> IdleThread]

\* a thread enters get_openai_provider
CallGet(t) ==
  /\ caller[t].pc = "idle"
  /\ Len(caller[t].returned) < MaxCalls
  /\ serial => \A u \in Callers : caller[u].pc = "idle"
  /\ ncalls' = ncalls + 1
  /\ caller' = [caller EXCEPT ![t].pc = "check", ![t].call = ncalls + 1]
  /\ UNCHANGED <<settings, _openai_provider, built, resets, serial, pureVars, mainVars>>

\* if _openai_provider is None:
CheckNone(t) ==
  /\ caller[t].pc = "check"
  /\ caller' = [caller EXCEPT ![t].pc =
                  IF NeedsConstruction(_openai_provider) THEN "construct"
                  ELSE "return"]
  /\ UNCHANGED <<settings, _openai_provider, built, resets, serial, ncalls, pureVars, mainVars>>

\* what a get_openai_provider call gave its caller, and the number of
\* resets that had happened by then
Returned(r) == [kind |-> r.kind, value |-> r.value, epoch |-> resets]

\* OpenAIProvider(): the instance is built from the settings, or the
\* constructor raises and the call ends with the global untouched; a built
\* instance is recorded with the call that built it, the key it read and
\* the number of resets before it
Construct(t) ==
  /\ caller[t].pc = "construct"
  /\ LET k == _initialize_openai(settings)
     IN IF k.kind = "raise"
        THEN /\ caller' = [caller EXCEPT ![t].pc = "idle",
                             ![t].returned =
                               Append(@, Returned([kind |-> "raise",
                                                   value |-> k.exc]))]
             /\ UNCHANGED built
        ELSE /\ built' = Append(built, [call |-> caller[t].call,
                                        api_key |-> k.value,
                                        epoch |-> resets])
             /\ caller' = [caller EXCEPT ![t].pc = "assign",
                             ![t].tmp = Instance(Len(built) + 1)]
  /\ UNCHANGED <<settings, _openai_provider, resets, serial, ncalls, pureVars, mainVars>>

\* _openai_provider = <the new instance>
AssignGlobal(t) ==
  /\ caller[t].pc = "assign"
  /\ _openai_provider' = caller[t].tmp
  /\ caller' = [caller EXCEPT ![t].pc = "return", ![t].tmp = NoProvider]
  /\ UNCHANGED <<settings, built, resets, serial, ncalls, pureVars, mainVars>>

\* return _openai_provider
ReturnGlobal(t) ==
  /\ caller[t].pc = "return"
  /\ caller' = [caller EXCEPT ![t].pc = "idle",
                  ![t].returned = Append(@, Returned(Ok(_openai_provider)))]
  /\ UNCHANGED <<settings, _openai_provider, built, resets, serial, ncalls, pureVars, mainVars>>

\* a plausible bug: the reset leaves the instance in place
ResetKeepsInstance ==
  /\ resets < MaxResets
  /\ serial => \A u \in Callers : caller[u].pc = "idle"
  /\ resets' = resets + 1
  /\ UNCHANGED <<settings, _openai_provider, built, serial, ncalls, caller,
                 pureVars, mainVars>>

\* reset_openai_provider
ResetProvider ==
  /\ resets < MaxResets
  /\ serial => \A u \in Callers : caller[u].pc = "idle"
  /\ _openai_provider' = NoProvider
  /\ resets' = resets + 1
  /\ UNCHANGED <<settings, built, serial, ncalls, caller, pureVars, mainVars>>

\* a configuration change followed by reset_openai_provider ("useful for
\* testing or config changes")
ReloadSettings(s) ==
  /\ resets < MaxResets
  /\ serial => \A u \in Callers : caller[u].pc = "idle"
  /\ s # settings
  /\ settings' = s
  /\ _openai_provider' = NoProvider
  /\ resets' = resets + 1
  /\ UNCHANGED <<built, serial, ncalls, caller, pureVars, mainVars>>

NextProvider ==
  \/ \E t \in Callers : CallGet(t)
  \/ \E t \in Callers : CheckNone(t)
  \/ \E t \in Callers : Construct(t)
  \/ \E t \in Callers : AssignGlobal(t)
  \/ \E t \in Callers : ReturnGlobal(t)
  \/ ResetProvider
  \/ \E s \in SettingsSpace : ReloadSettings(s)

\* calls made one after the other
InitProviderSeq ==
  /\ PureIdle
  /\ MainIdle
  /\ settings \in SettingsSpace
  /\ _openai_provider = NoProvider
  /\ built = <<>>
  /\ resets = 0
  /\ serial = TRUE
  /\ ncalls = 0
  /\ caller = [t \in Callers |-> [pc |-> "idle", call |-> 0, tmp |-> NoProvider,
                                  returned |-> <<>>]]

SpecProviderSeq == InitProviderSeq /\ [][NextProvider]_vars

\* calls made by request threads that run concurrently
InitProvider ==
  /\ PureIdle
  /\ MainIdle
  /\ settings \in SettingsSpace
  /\ _openai_provider = NoProvider
  /\ built = <<>>
  /\ resets = 0
  /\ serial = FALSE
  /\ ncalls = 0
  /\ caller = [t \in Callers |-> [pc |-> "idle", call |-> 0, tmp |-> NoProvider,
                                  returned |-> <<>>]]

SpecProvider == InitProvider /\ [][NextProvider]_vars

(***************************************************************************)
(* DebateAIProvider (ai_providers.py), used by ChatbotAPIView.             *)
(***************************************************************************)
LegacyPrefixes ==
  << <<"A", "I", ":">>,
     <<"B", "o", "t", ":">>,
     <<"A", "s", "s", "i", "s", "t", "a", "n", "t", ":">>,
     <<"R", "e", "s", "p", "o", "n", "s", "e", ":">>,
     <<"Y", "O", "U", ":">>,
     <<"B", "O", "T", ":">> >>

\* a plausible bug: the final check for an empty response is missing
LegacyPostProcessNoFinalCheck(response) ==
  IF response = <<>> \/ Strip(response) = <<>> THEN Raise("AIProviderError")
  ELSE Ok(Strip(StripPrefixes(LegacyPrefixes, response, <<>>, 1).text))

\* DebateAIProvider._post_process_response
LegacyPostProcess(response) ==
  IF response = <<>> \/ Strip(response) = <<>> THEN Raise("AIProviderError")
  ELSE LET r == StripPrefixes(LegacyPrefixes, response, <<>>, 1)
       IN IF Strip(r.text) = <<>> THEN Raise("AIProviderError")
          ELSE Ok(Strip(r.text))

\* DebateAIProvider.generate_response, the try body: the call,
\* content.strip(), post-processing
LegacyGenerateTryBody(outcome) ==
  CASE outcome.kind = "raise" -> Raise(outcome.exc)
    [] outcome.kind = "nochoices" -> Raise("IndexError")
    [] outcome.kind = "none" -> Raise("AttributeError")
    [] outcome.kind = "text" -> LegacyPostProcess(Strip(outcome.text))

\* except Exception as e: raise AIProviderError(...)
LegacyGenerateResponse(outcome) ==
  LET r == LegacyGenerateTryBody(outcome)
  IN IF r.kind = "raise" THEN Raise("AIProviderError") ELSE r

\* DebateAIProvider.parse_initial_message, the try body
LegacyParseTryBody(message, outcome) ==
  CASE outcome.kind = "raise" -> Raise(outcome.exc)
    [] outcome.kind = "nochoices" -> Raise("IndexError")
    [] outcome.kind = "none" -> Raise("AttributeError")
    [] outcome.kind = "text" ->
         LET ai_response == Strip(outcome.text)
         IN IF Contains(ai_response, TOPIC) /\ Contains(ai_response, STANCE)
            THEN LET parts == SplitAll(ai_response, "|")
                 IN IF Len(parts) < 2 THEN Raise("IndexError")
                    ELSE Ok([topic |-> Strip(Remove(parts[1], TOPIC)),
                             stance |-> Strip(Remove(parts[2], STANCE))])
            ELSE LET lines == SplitAll(ai_response, "\n")
                 IN Ok([topic |-> Strip(lines[1]),
                        stance |-> IF Len(lines) > 1 THEN Strip(lines[2])
                                   ELSE IDisagreeWith
                                        \o Take(message, LegacyTruncLen)
                                        \o Ellipsis])

\* except Exception: the error is logged and the function returns None
LegacyParseInitialMessage(message, outcome) ==
  LET r == LegacyParseTryBody(message, outcome)
  IN IF r.kind = "raise" THEN [kind |-> "none"] ELSE r

\* DebateAIProvider._initialize_openai: no test-mode placeholder
LegacyInitializeOpenai(s) ==
  IF s.OPENAI_API_KEY = None THEN Raise("AIProviderError")
  ELSE Ok(s.OPENAI_API_KEY)

(***************************************************************************)
(* Inputs of the pure functions.                                           *)
(***************************************************************************)
RawSegments ==
  { <<"A", "I", ":">>, <<"B", "o", "t", ":">>, <<"K", "o", "p", "i", ":">>,
    <<"b", "o", "t", ":">>, <<" ">>, <<"h">> }

RawTexts == Texts(RawSegments, MaxSegs)

ReplySegments == { TOPIC, STANCE, <<"|">>, <<" ">>, <<"t">> }

ReplyTexts == Texts(ReplySegments, MaxSegs + 1)

LongMessage == [i \in 1..(TruncLen + 2) |-> IF i > TruncLen THEN "y" ELSE "x"]

FirstMessages == { <<"h", "i">>, LongMessage }

FieldSegments == { TOPIC, STANCE, <<"|">>, <<" ">>, <<"t">> }

FieldTexts == Texts(FieldSegments, MaxFieldSegs)

\* the reply format the extraction prompt asks for:
\* TOPIC: [topic] | STANCE: [stance]
LabelledReply(t, s) ==
  TOPIC \o <<" ">> \o t \o <<" ", "|", " ">> \o STANCE \o <<" ">> \o s

\* the inputs of one parse_initial_message call: a free-form reply, or a
\* labelled reply with its two fields
ParseInputs ==
  {[fn |-> "parse", message |-> m, outcome |-> o, labelled |-> FALSE,
    t |-> <<>>, s |-> <<>>] :
      m \in FirstMessages, o \in UpstreamOutcomes(ReplyTexts)}
  \cup
  {[fn |-> "parse", message |-> m,
    outcome |-> [kind |-> "text", text |-> LabelledReply(t, s)],
    labelled |-> TRUE, t |-> t, s |-> s] :
      m \in FirstMessages, t \in FieldTexts, s \in FieldTexts}

\* the inputs of one DebateAIProvider.parse_initial_message call
LegacyParseInputs ==
  {[fn |-> "legacy_parse", message |-> m, outcome |-> o, labelled |-> FALSE,
    t |-> <<>>, s |-> <<>>] :
      m \in FirstMessages, o \in UpstreamOutcomes(ReplyTexts)}

(***************************************************************************)
(* SpecClean: _post_process_response applied to every raw text.            *)
(***************************************************************************)
InitClean ==
  /\ ProviderIdle
  /\ MainIdle
  /\ arg \in {[fn |-> f, raw |-> t] : f \in {"clean", "legacy_clean"},
                                       t \in RawTexts}
  /\ res = NoResult

Clean ==
  /\ arg.fn = "clean"
  /\ res = NoResult
  /\ res' = _post_process_response(arg.raw)
  /\ UNCHANGED <<arg, providerVars, mainVars>>

LegacyClean ==
  /\ arg.fn = "legacy_clean"
  /\ res = NoResult
  /\ res' = LegacyPostProcess(arg.raw)
  /\ UNCHANGED <<arg, providerVars, mainVars>>

NextClean == Clean \/ LegacyClean

SpecClean == InitClean /\ [][NextClean]_vars

(***************************************************************************)
(* SpecGenerate: generate_response applied to every upstream outcome.      *)
(***************************************************************************)
InitGenerate ==
  /\ ProviderIdle
  /\ MainIdle
  /\ arg \in {[fn |-> "generate", outcome |-> o] : o \in UpstreamOutcomes(RawTexts)}
  /\ res = NoResult

Generate ==
  /\ arg.fn = "generate"
  /\ res = NoResult
  /\ res' = generate_response(arg.outcome)
  /\ UNCHANGED <<arg, providerVars, mainVars>>

NextGenerate == Generate

SpecGenerate == InitGenerate /\ [][NextGenerate]_vars

(***************************************************************************)
(* SpecParse: parse_initial_message applied to every upstream outcome.     *)
(***************************************************************************)
InitParse ==
  /\ ProviderIdle
  /\ MainIdle
  /\ arg \in ParseInputs \cup LegacyParseInputs
  /\ res = NoResult

Parse ==
  /\ arg.fn = "parse"
  /\ res = NoResult
  /\ res' = parse_initial_message(arg.message, arg.outcome)
  /\ UNCHANGED <<arg, providerVars, mainVars>>

LegacyParse ==
  /\ arg.fn = "legacy_parse"
  /\ res = NoResult
  /\ res' = LegacyParseInitialMessage(arg.message, arg.outcome)
  /\ UNCHANGED <<arg, providerVars, mainVars>>

NextParse == Parse \/ LegacyParse

SpecParse == InitParse /\ [][NextParse]_vars

(***************************************************************************)
(* SpecWindow: the prompts built from histories of every length up to      *)
(* MaxHist.  The content of the i-th turn names its position, so that a    *)
(* reordered, duplicated or dropped turn shows.                            *)
(***************************************************************************)
TurnContents ==
  <<"a", "b", "c", "d", "e", "f", "g", "h", "i", "j", "k", "l", "m", "n", "o",
    "p", "q", "r", "s", "t", "u", "v", "w", "x", "y", "z">>

InitWindow ==
  /\ ProviderIdle
  /\ MainIdle
  /\ arg = [fn |-> "window", history |-> <<>>, last_user_message |-> <<"h", "i">>]
  /\ res = NoResult

AddTurn(role) ==
  /\ arg.fn = "window"
  /\ res = NoResult
  /\ Len(arg.history) < MaxHist
  /\ arg' = [arg EXCEPT !.history =
               Append(@, [role |-> role,
                          content |-> <<TurnContents[Len(@) + 1]>>])]
  /\ UNCHANGED <<res, providerVars, mainVars>>

\* continue_debate: the whole stored history goes to _build_user_prompt
BuildDebatePrompt ==
  /\ arg.fn = "window"
  /\ res = NoResult
  /\ res' = [kind |-> "prompt", k |-> PromptWindow,
             prompt |-> _build_user_prompt(arg.history, arg.last_user_message)]
  /\ UNCHANGED <<arg, providerVars, mainVars>>

\* DebateBot.generate_response: the last seven stored messages go to the
\* provider's prompt builder
BuildBotPrompt ==
  /\ arg.fn = "window"
  /\ res = NoResult
  /\ res' = [kind |-> "prompt", k |-> BotWindow,
             prompt |-> LegacyBuildUserPrompt(DebateBotHistory(arg.history))]
  /\ UNCHANGED <<arg, providerVars, mainVars>>

NextWindow ==
  \/ \E role \in {"user", "bot"} : AddTurn(role)
  \/ BuildDebatePrompt
  \/ BuildBotPrompt

SpecWindow == InitWindow /\ [][NextWindow]_vars

(***************************************************************************)
(* The system prompts.  An f-string is the sequence of its literal pieces   *)
(* and interpolated values.                                                *)
(***************************************************************************)
\* a plausible bug: the two interpolated fields are swapped
SystemPromptSwapped(topic, bot_stance) ==
  <<"### Persona ... ### Debate Context\n- **Topic**: ", bot_stance,
    "\n- **Your Unwavering Stance**: ", topic,
    "\n\n### Critical Rules 1. ... 5. **Format**: ... no more than ",
    AI_MAX_TOKENS - TokenReserve,
    " tokens.\n6. Direct Rebuttal: ...\n7. Maintain Character: ...\n">>

\* OpenAIProvider._build_system_prompt
_build_system_prompt(topic, bot_stance) ==
  <<"### Persona ... ### Debate Context\n- **Topic**: ", topic,
    "\n- **Your Unwavering Stance**: ", bot_stance,
    "\n\n### Critical Rules 1. ... 5. **Format**: ... no more than ",
    AI_MAX_TOKENS - TokenReserve,
    " tokens.\n6. Direct Rebuttal: ...\n7. Maintain Character: ...\n">>

\* DebateAIProvider._build_system_prompt
LegacyBuildSystemPrompt(topic, bot_stance) ==
  <<"### Persona ... ### Debate Context\n- **Topic**: ", topic,
    "\n- **Your Unwavering Stance**: ", bot_stance,
    "\n\n### Critical Rules 1. ... 5. **Format**: ... no more than ",
    AI_MAX_TOKENS, " tokens.\n">>

(***************************************************************************)
(* The database and the request handlers.                                  *)
(***************************************************************************)
UserMessages == { <<>>, <<"m">> }

WellFormedReply ==
  TOPIC \o <<" ", "t", " ", "|", " ">> \o STANCE \o <<" ", "s">>

ParseOutcomes ==
  { [kind |-> "raise", exc |-> "RateLimitError"],
    [kind |-> "text", text |-> WellFormedReply],
    [kind |-> "text", text |-> <<"x">>] }

GenerationOutcomes ==
  { [kind |-> "raise", exc |-> "RateLimitError"],
    [kind |-> "text", text |-> <<"B", "o", "t", ":", " ", "r">>],
    [kind |-> "text", text |-> <<"B", "o", "t", ":">>] }

EditedTopic == <<"e">>

\* the conversation_id values of a request: none, a stored conversation, or
\* an id no conversation has
RequestIds == (0..Len(conversations)) \cup {UnknownId}

ConvExists(cid) ==
  /\ cid \in 1..Len(conversations)
  /\ ~conversations[cid].deleted

\* Message.objects.filter(conversation=conversation).order_by('created_at')
ConversationMessages(cid) ==
  SelectSeq(messages, LAMBDA m : m.conversation = cid)

\* [{'role': message.role.name, 'content': message.content} for message in
\* messages]
HistoryOf(msgs) ==
  [i \in 1..Len(msgs) |-> [role |-> msgs[i].role, content |-> msgs[i].content]]

\* the requests that stored the messages of a history, entry by entry (kept
\* next to the history a request read, to tell its own message from others)
RequestsOf(msgs) == [i \in 1..Len(msgs) |-> msgs[i].request]

\* a plausible bug: the message is stored twice
StoreMessageTwice(msgs, cid, role, content, rid) ==
  msgs \o << [conversation |-> cid, role |-> role, content |-> content,
              request |-> rid],
             [conversation |-> cid, role |-> role, content |-> content,
              request |-> rid] >>

\* Message.objects.create(conversation=..., role=..., content=...); request
\* names the request that stored it
StoreMessage(msgs, cid, role, content, rid) ==
  Append(msgs, [conversation |-> cid, role |-> role, content |-> content,
                request |-> rid])

\* Conversation.objects.create(topic=topic, bot_stance=bot_stance); created
\* keeps the values it was created with, request the request that created it;
\* deleted marks a row that conversation.delete() removed (its id is not
\* used again)
NewConversation(topic, bot_stance, rid) ==
  [topic |-> topic, bot_stance |-> bot_stance, is_active |-> TRUE,
   created |-> [topic |-> topic, bot_stance |-> bot_stance],
   edited |-> FALSE, request |-> rid, deleted |-> FALSE]

\* get_openai_provider run as one step
GetOpenAIProvider ==
  IF NeedsConstruction(_openai_provider)
  THEN LET k == _initialize_openai(settings)
       IN IF k.kind = "raise"
          THEN [raised |-> TRUE, provider |-> _openai_provider, built |-> built]
          ELSE [raised |-> FALSE, provider |-> Instance(Len(built) + 1),
                built |-> Append(built, [call |-> 0, api_key |-> k.value,
                                         epoch |-> resets])]
  ELSE [raised |-> FALSE, provider |-> _openai_provider, built |-> built]

\* get_ai_provider run as one step
GetAIProvider ==
  IF _ai_provider = NoProvider
  THEN IF LegacyInitializeOpenai(settings).kind = "raise"
       THEN [raised |-> TRUE, provider |-> _ai_provider]
       ELSE [raised |-> FALSE, provider |-> Instance(1)]
  ELSE [raised |-> FALSE, provider |-> _ai_provider]

\* the handler returns a response with this status
Finished(l, status) == [l EXCEPT !.pc = "done", !.status = status]

NewRequest(view, um, cid) ==
  [IdleThread EXCEPT !.rid = nreq + 1, !.view = view, !.data_message = um,
                     !.user_message = um, !.conversation_id = cid]

CanStart(t) ==
  /\ th[t].pc \in {"idle", "done"}
  /\ nreq < MaxRequests

\* DebateAPIViewPost.post: DebateCreate(**request.data), then create_debate
\* or continue_debate
DebatePost(t, um, cid) ==
  /\ CanStart(t)
  /\ nreq' = nreq + 1
  /\ th' = [th EXCEPT ![t] =
              [NewRequest("debate", um, cid) EXCEPT !.pc =
                 IF cid = NoId THEN "create_debate" ELSE "continue_debate"]]
  /\ UNCHANGED <<pureVars, providerVars, _ai_provider, conversations, messages,
                 nedits>>

\* a plausible bug: a failed extraction call is answered with the generic
\* topic and the turn goes on
CreateDebateParseFallsBack(t, o) ==
  /\ th[t].pc = "create_debate"
  /\ LET g == GetOpenAIProvider
         r == parse_initial_message(th[t].user_message, o)
         called == [th[t] EXCEPT !.calls =
                      Append(@, [kind |-> "parse", message |-> th[t].user_message])]
     IN /\ _openai_provider' = g.provider
        /\ built' = g.built
        /\ th' = [th EXCEPT ![t] =
                    IF g.raised THEN Finished(th[t], 500)
                    ELSE IF r.kind = "raise"
                    THEN [called EXCEPT !.topic = GeneralDebate,
                                        !.bot_stance = IDisagreeWith,
                                        !.pc = "create_conversation"]
                    ELSE [called EXCEPT !.topic = r.value.topic,
                                        !.bot_stance = r.value.stance,
                                        !.extracted =
                                          [topic |-> r.value.topic,
                                           bot_stance |-> r.value.stance],
                                        !.pc = "create_conversation"]]
  /\ UNCHANGED <<pureVars, settings, resets, serial, ncalls, caller,
                 _ai_provider, conversations, messages, nreq, nedits>>

\* create_debate: get_openai_provider(), parse_initial_message(user_message)
CreateDebateParse(t, o) ==
  /\ th[t].pc = "create_debate"
  /\ LET g == GetOpenAIProvider
         r == parse_initial_message(th[t].user_message, o)
         called == [th[t] EXCEPT !.calls =
                      Append(@, [kind |-> "parse", message |-> th[t].user_message])]
     IN /\ _openai_provider' = g.provider
        /\ built' = g.built
        /\ th' = [th EXCEPT ![t] =
                    IF g.raised THEN Finished(th[t], 500)
                    ELSE IF r.kind = "raise" THEN Finished(called, 500)
                    ELSE [called EXCEPT !.topic = r.value.topic,
                                        !.bot_stance = r.value.stance,
                                        !.extracted =
                                          [topic |-> r.value.topic,
                                           bot_stance |-> r.value.stance],
                                        !.pc = "create_conversation"]]
  /\ UNCHANGED <<pureVars, settings, resets, serial, ncalls, caller,
                 _ai_provider, conversations, messages, nreq, nedits>>

\* a plausible bug: the turn goes on to generation without storing the
\* conversation
CreateConversationSkipped(t) ==
  /\ th[t].pc = "create_conversation"
  /\ th' = [th EXCEPT ![t].first = TRUE, ![t].pc = "read_history"]
  /\ UNCHANGED <<pureVars, providerVars, _ai_provider, conversations, messages,
                 nreq, nedits>>

\* create_debate: Conversation.objects.create(topic, bot_stance), then
\* continue_debate with the new id
CreateConversation(t) ==
  /\ th[t].pc = "create_conversation"
  /\ conversations' = Append(conversations,
       NewConversation(th[t].topic, th[t].bot_stance, th[t].rid))
  /\ th' = [th EXCEPT ![t].conversation_id = Len(conversations) + 1,
                      ![t].first = TRUE,
                      ![t].pc = "continue_debate"]
  /\ UNCHANGED <<pureVars, providerVars, _ai_provider, messages, nreq, nedits>>

\* a plausible bug: the turn goes on when no conversation has the id
ContinueDebateNoLookup(t) ==
  /\ th[t].pc = "continue_debate"
  /\ LET c == th[t].conversation_id
     IN th' = [th EXCEPT ![t] =
                 IF ConvExists(c)
                 THEN [th[t] EXCEPT !.topic = conversations[c].topic,
                                    !.bot_stance = conversations[c].bot_stance,
                                    !.pc = "read_history"]
                 ELSE [th[t] EXCEPT !.pc = "read_history"]]
  /\ UNCHANGED <<pureVars, providerVars, _ai_provider, conversations, messages,
                 nreq, nedits>>

\* continue_debate: get_openai_provider(), get_object_or_404(Conversation);
\* Http404 reaches the view's `except Exception`
ContinueDebateLookup(t) ==
  /\ th[t].pc = "continue_debate"
  /\ LET g == GetOpenAIProvider
         c == th[t].conversation_id
     IN /\ _openai_provider' = g.provider
        /\ built' = g.built
        /\ th' = [th EXCEPT ![t] =
                    IF g.raised \/ ~ConvExists(c) THEN Finished(th[t], 500)
                    ELSE [th[t] EXCEPT !.topic = conversations[c].topic,
                                       !.bot_stance = conversations[c].bot_stance,
                                       !.pc = "read_history"]]
  /\ UNCHANGED <<pureVars, settings, resets, serial, ncalls, caller,
                 _ai_provider, conversations, messages, nreq, nedits>>

\* a plausible bug: a turn waits while another request is between reading
\* and writing the same conversation
ReadHistoryLocked(t) ==
  /\ th[t].pc = "read_history"
  /\ \A u \in Threads \ {t} :
       ~(/\ th[u].conversation_id = th[t].conversation_id
         /\ th[u].pc \in {"generate", "save_user", "save_bot"})
  /\ th' = [th EXCEPT ![t].history =
                        HistoryOf(ConversationMessages(th[t].conversation_id)),
                      ![t].seen =
                        RequestsOf(ConversationMessages(th[t].conversation_id)),
                      ![t].pc = "generate"]
  /\ UNCHANGED <<pureVars, providerVars, _ai_provider, conversations, messages,
                 nreq, nedits>>

\* continue_debate: the stored messages become the context's history
ReadHistory(t) ==
  /\ th[t].pc = "read_history"
  /\ th' = [th EXCEPT ![t].history =
                        HistoryOf(ConversationMessages(th[t].conversation_id)),
                      ![t].seen =
                        RequestsOf(ConversationMessages(th[t].conversation_id)),
                      ![t].pc = "generate"]
  /\ UNCHANGED <<pureVars, providerVars, _ai_provider, conversations, messages,
                 nreq, nedits>>

\* a plausible bug: the system prompt also quotes the latest user message
GenerateReplyPersonaDrifts(t, o) ==
  /\ th[t].pc = "generate"
  /\ LET r == generate_response(o)
         called == [th[t] EXCEPT !.calls =
                      Append(@, [kind |-> "generate",
                                 system |-> _build_system_prompt(
                                              th[t].topic, th[t].bot_stance)
                                            \o <<th[t].user_message>>,
                                 user |-> _build_user_prompt(
                                            th[t].history, th[t].user_message)])]
     IN th' = [th EXCEPT ![t] =
                 IF r.kind = "raise"
                 THEN Finished([called EXCEPT !.genFailed = TRUE], 500)
                 ELSE [called EXCEPT !.response = r.value, !.pc = "save_user"]]
  /\ UNCHANGED <<pureVars, providerVars, _ai_provider, conversations, messages,
                 nreq, nedits>>

\* a plausible bug: a failed generation call is made again
GenerateReplyRetry(t, o) ==
  /\ th[t].pc = "generate"
  /\ LET r == generate_response(o)
         called == [th[t] EXCEPT !.calls =
                      Append(@, [kind |-> "generate",
                                 system |-> _build_system_prompt(
                                              th[t].topic, th[t].bot_stance),
                                 user |-> _build_user_prompt(
                                            th[t].history, th[t].user_message)])]
     IN th' = [th EXCEPT ![t] =
                 IF r.kind = "raise"
                 THEN IF Len(th[t].calls) < 3 THEN called
                      ELSE Finished([called EXCEPT !.genFailed = TRUE], 500)
                 ELSE [called EXCEPT !.response = r.value, !.pc = "save_user"]]
  /\ UNCHANGED <<pureVars, providerVars, _ai_provider, conversations, messages,
                 nreq, nedits>>

\* continue_debate: openai_provider.generate_response(debate_context)
GenerateReply(t, o) ==
  /\ th[t].pc = "generate"
  /\ LET r == generate_response(o)
         called == [th[t] EXCEPT !.calls =
                      Append(@, [kind |-> "generate",
                                 system |-> _build_system_prompt(
                                              th[t].topic, th[t].bot_stance),
                                 user |-> _build_user_prompt(
                                            th[t].history, th[t].user_message)])]
     IN th' = [th EXCEPT ![t] =
                 IF r.kind = "raise"
                 THEN Finished([called EXCEPT !.genFailed = TRUE], 500)
                 ELSE [called EXCEPT !.response = r.value, !.pc = "save_user"]]
  /\ UNCHANGED <<pureVars, providerVars, _ai_provider, conversations, messages,
                 nreq, nedits>>

\* continue_debate: Message.objects.create(role user)
SaveUserMessage(t) ==
  /\ th[t].pc = "save_user"
  /\ messages' = StoreMessage(messages, th[t].conversation_id, "user",
                              th[t].user_message, th[t].rid)
  /\ th' = [th EXCEPT ![t].pc = "save_bot"]
  /\ UNCHANGED <<pureVars, providerVars, _ai_provider, conversations, nreq, nedits>>

\* continue_debate: Message.objects.create(role bot)
SaveBotMessage(t) ==
  /\ th[t].pc = "save_bot"
  /\ messages' = StoreMessage(messages, th[t].conversation_id, "bot",
                              th[t].response, th[t].rid)
  /\ th' = [th EXCEPT ![t].pc = "respond"]
  /\ UNCHANGED <<pureVars, providerVars, _ai_provider, conversations, nreq, nedits>>

\* continue_debate: return Debate(...): the response model validates the
\* stored messages (pydantic is not part of the source: both outcomes), and
\* the view answers 200, or 400 on ValidationError
Respond(t, valid) ==
  /\ th[t].pc = "respond"
  /\ th' = [th EXCEPT ![t] = Finished(th[t], IF valid THEN 200 ELSE 400)]
  /\ UNCHANGED <<pureVars, providerVars, _ai_provider, conversations, messages,
                 nreq, nedits>>

\* ChatbotAPIView.post: the message is stripped and required; a
\* conversation_id is looked up among the active conversations
ChatbotPost(t, um, cid) ==
  /\ CanStart(t)
  /\ nreq' = nreq + 1
  /\ LET req == [NewRequest("chatbot", um, cid) EXCEPT !.user_message = Strip(um)]
     IN th' = [th EXCEPT ![t] =
                 IF Strip(um) = <<>> THEN Finished(req, 400)
                 ELSE IF cid # NoId
                 THEN IF ConvExists(cid) /\ conversations[cid].is_active
                      THEN [req EXCEPT !.topic = conversations[cid].topic,
                                       !.bot_stance = conversations[cid].bot_stance,
                                       !.pc = "chat_save_user"]
                      ELSE Finished(req, 404)
                 ELSE [req EXCEPT !.pc = "chat_parse"]]
  /\ UNCHANGED <<pureVars, providerVars, _ai_provider, conversations, messages,
                 nedits>>

\* ChatbotAPIView.post: get_ai_provider(), parse_initial_message; unpacking
\* None raises TypeError, answered 500
ChatParse(t, o) ==
  /\ th[t].pc = "chat_parse"
  /\ LET g == GetAIProvider
         r == LegacyParseInitialMessage(th[t].user_message, o)
         called == [th[t] EXCEPT !.calls =
                      Append(@, [kind |-> "parse", message |-> th[t].user_message])]
     IN /\ _ai_provider' = g.provider
        /\ th' = [th EXCEPT ![t] =
                    IF g.raised THEN Finished(th[t], 500)
                    ELSE IF r.kind = "none" THEN Finished(called, 500)
                    ELSE [called EXCEPT !.topic = r.value.topic,
                                        !.bot_stance = r.value.stance,
                                        !.extracted =
                                          [topic |-> r.value.topic,
                                           bot_stance |-> r.value.stance],
                                        !.pc = "chat_create_conversation"]]
  /\ UNCHANGED <<pureVars, providerVars, conversations, messages, nreq, nedits>>

\* ChatbotAPIView.post: Conversation.objects.create(topic, bot_stance)
ChatCreateConversation(t) ==
  /\ th[t].pc = "chat_create_conversation"
  /\ conversations' = Append(conversations,
       NewConversation(th[t].topic, th[t].bot_stance, th[t].rid))
  /\ th' = [th EXCEPT ![t].conversation_id = Len(conversations) + 1,
                      ![t].first = TRUE,
                      ![t].pc = "chat_save_user"]
  /\ UNCHANGED <<pureVars, providerVars, _ai_provider, messages, nreq, nedits>>

\* ChatbotAPIView.post: the user message is saved before generation
ChatSaveUser(t) ==
  /\ th[t].pc = "chat_save_user"
  /\ messages' = StoreMessage(messages, th[t].conversation_id, "user",
                              th[t].user_message, th[t].rid)
  /\ th' = [th EXCEPT ![t].pc = "chat_read"]
  /\ UNCHANGED <<pureVars, providerVars, _ai_provider, conversations, nreq, nedits>>

\* DebateBot.generate_response: get_ai_provider(), the stored messages, the
\* last seven as the context's history
ChatReadHistory(t) ==
  /\ th[t].pc = "chat_read"
  /\ LET g == GetAIProvider
     IN /\ _ai_provider' = g.provider
        /\ th' = [th EXCEPT ![t] =
                    IF g.raised THEN Finished(th[t], 500)
                    ELSE [th[t] EXCEPT
                            !.history = DebateBotHistory(
                              ConversationMessages(th[t].conversation_id)),
                            !.seen = RequestsOf(LastN(
                              ConversationMessages(th[t].conversation_id),
                              BotWindow)),
                            !.pc = "chat_generate"]]
  /\ UNCHANGED <<pureVars, providerVars, conversations, messages, nreq, nedits>>

\* DebateBot.generate_response: ai_provider.generate_response(context);
\* AIProviderError reaches the view's `except Exception`
ChatGenerate(t, o) ==
  /\ th[t].pc = "chat_generate"
  /\ LET r == LegacyGenerateResponse(o)
         called == [th[t] EXCEPT !.calls =
                      Append(@, [kind |-> "generate",
                                 system |-> LegacyBuildSystemPrompt(
                                              th[t].topic, th[t].bot_stance),
                                 user |-> LegacyBuildUserPrompt(th[t].history)])]
     IN th' = [th EXCEPT ![t] =
                 IF r.kind = "raise"
                 THEN Finished([called EXCEPT !.genFailed = TRUE], 500)
                 ELSE [called EXCEPT !.response = r.value, !.pc = "chat_save_bot"]]
  /\ UNCHANGED <<pureVars, providerVars, _ai_provider, conversations, messages,
                 nreq, nedits>>

\* ChatbotAPIView.post: the bot message is saved and the history returned
ChatSaveBot(t) ==
  /\ th[t].pc = "chat_save_bot"
  /\ messages' = StoreMessage(messages, th[t].conversation_id, "bot",
                              th[t].response, th[t].rid)
  /\ th' = [th EXCEPT ![t] = Finished(th[t], 200)]
  /\ UNCHANGED <<pureVars, providerVars, _ai_provider, conversations, nreq, nedits>>

\* update_conversation (the collaborator API): a new topic for a stored
\* conversation
UpdateConversation(c) ==
  /\ nedits < MaxEdits
  /\ ConvExists(c)
  /\ nedits' = nedits + 1
  /\ conversations' = [conversations EXCEPT ![c].topic = EditedTopic,
                                            ![c].edited = TRUE]
  /\ UNCHANGED <<pureVars, providerVars, _ai_provider, messages, nreq, th>>

Init ==
  /\ PureIdle
  /\ ProviderIdle
  /\ MainIdle

Next ==
  \/ \E t \in Threads, um \in UserMessages, cid \in RequestIds :
       DebatePost(t, um, cid)
  \/ \E t \in Threads, o \in ParseOutcomes : CreateDebateParse(t, o)
  \/ \E t \in Threads : CreateConversation(t)
  \/ \E t \in Threads : ContinueDebateLookup(t)
  \/ \E t \in Threads : ReadHistory(t)
  \/ \E t \in Threads, o \in GenerationOutcomes : GenerateReply(t, o)
  \/ \E t \in Threads : SaveUserMessage(t)
  \/ \E t \in Threads : SaveBotMessage(t)
  \/ \E t \in Threads, valid \in BOOLEAN : Respond(t, valid)
  \/ \E t \in Threads, um \in UserMessages, cid \in RequestIds :
       ChatbotPost(t, um, cid)
  \/ \E t \in Threads, o \in ParseOutcomes : ChatParse(t, o)
  \/ \E t \in Threads : ChatCreateConversation(t)
  \/ \E t \in Threads : ChatSaveUser(t)
  \/ \E t \in Threads : ChatReadHistory(t)
  \/ \E t \in Threads, o \in GenerationOutcomes : ChatGenerate(t, o)
  \/ \E t \in Threads : ChatSaveBot(t)
  \/ \E c \in 1..Len(conversations) : UpdateConversation(c)

Spec == Init /\ [][Next]_vars

\* a database that already holds one conversation with its first turn
\* (request 0 stands for the earlier request that stored it); is_active is
\* the model field, which the admin site can clear
StoredConversation(active) ==
  [NewConversation(<<"t">>, <<"s">>, 0) EXCEPT !.is_active = active]

StoredMessages ==
  StoreMessage(StoreMessage(<<>>, 1, "user", <<"m">>, 0), 1, "bot", <<"r">>, 0)

InitStored ==
  /\ PureIdle
  /\ ProviderIdle
  /\ _ai_provider = NoProvider
  /\ \E active \in BOOLEAN : conversations = <<StoredConversation(active)>>
  /\ messages = StoredMessages
  /\ nreq = 0
  /\ nedits = 0
  /\ th = [t \in Threads |-> IdleThread]

SpecStored == InitStored /\ [][Next]_vars

\* a server with one worker: requests are handled one at a time (the other
\* threads never take a request)
InitSerial ==
  /\ PureIdle
  /\ ProviderIdle
  /\ _ai_provider = NoProvider
  /\ conversations = <<>>
  /\ messages = <<>>
  /\ nreq = 0
  /\ nedits = 0
  /\ th = [t \in Threads |->
             IF t = 1 THEN IdleThread ELSE [IdleThread EXCEPT !.pc = "off"]]

SpecSerial == InitSerial /\ [][Next]_vars

(***************************************************************************)
(* The conversation and message services called one at a time.             *)
(***************************************************************************)
Roles == {"user", "bot"}

\* get_recent_messages(self, limit: int = 5, ...)
DefaultLimit == 5

Limits == {0, 1, 2, DefaultLimit}

ReverseSeq(q) == [i \in 1..Len(q) |-> q[Len(q) + 1 - i]]

\* Conversation.get_recent_messages: order_by('created_at') when reverse,
\* order_by('-created_at') otherwise, then [:limit]; msgs are the
\* conversation's messages in creation order
get_recent_messages(msgs, limit, reverse) ==
  FirstN(IF reverse THEN msgs ELSE ReverseSeq(msgs), limit)

\* conversations_service.create_conversation
create_conversation(topic, bot_stance) ==
  /\ nreq < MaxStoreOps
  /\ Len(conversations) < MaxConversations
  /\ nreq' = nreq + 1
  /\ conversations' = Append(conversations,
                             NewConversation(topic, bot_stance, nreq + 1))
  /\ UNCHANGED <<pureVars, providerVars, _ai_provider, messages, nedits, th>>

\* messages_service.create_message: get_object_or_404(Conversation), then
\* Message.objects.create; Http404 stores nothing
create_message(cid, role, content) ==
  /\ nreq < MaxStoreOps
  /\ nreq' = nreq + 1
  /\ messages' = IF ConvExists(cid)
                 THEN StoreMessage(messages, cid, role, content, nreq + 1)
                 ELSE messages
  /\ UNCHANGED <<pureVars, providerVars, _ai_provider, conversations, nedits, th>>

\* a plausible bug: the conversation row is removed and its messages stay
DeleteConversationNoCascade(cid) ==
  /\ ConvExists(cid)
  /\ conversations' = [conversations EXCEPT ![cid].deleted = TRUE]
  /\ UNCHANGED <<pureVars, providerVars, _ai_provider, messages, nreq, nedits, th>>

\* conversations_service.delete_conversation: conversation.delete(); the
\* messages go with it (Message.conversation is on_delete=CASCADE)
delete_conversation(cid) ==
  /\ ConvExists(cid)
  /\ conversations' = [conversations EXCEPT ![cid].deleted = TRUE]
  /\ messages' = SelectSeq(messages, LAMBDA m : m.conversation # cid)
  /\ UNCHANGED <<pureVars, providerVars, _ai_provider, nreq, nedits, th>>

\* messages_service.delete_message: message.delete()
delete_message(i) ==
  /\ i \in 1..Len(messages)
  /\ messages' = [j \in 1..(Len(messages) - 1) |->
                    IF j < i THEN messages[j] ELSE messages[j + 1]]
  /\ UNCHANGED <<pureVars, providerVars, _ai_provider, conversations, nreq,
                 nedits, th>>

\* conversation.get_recent_messages(limit, reverse) on a stored conversation
GetRecentMessages(cid, limit, reverse) ==
  /\ ConvExists(cid)
  /\ arg' = [fn |-> "recent", conversation |-> cid, limit |-> limit,
             reverse |-> reverse,
             stored |-> ConversationMessages(cid)]
  /\ res' = [kind |-> "messages",
             value |-> get_recent_messages(ConversationMessages(cid), limit,
                                           reverse)]
  /\ UNCHANGED <<providerVars, mainVars>>

NextStore ==
  \/ create_conversation(<<"t">>, <<"s">>)
  \/ \E cid \in RequestIds \ {NoId}, role \in Roles :
       create_message(cid, role, <<"a">>)
  \/ \E cid \in 1..Len(conversations) : delete_conversation(cid)
  \/ \E i \in 1..Len(messages) : delete_message(i)
  \/ \E cid \in 1..Len(conversations), limit \in Limits, reverse \in BOOLEAN :
       GetRecentMessages(cid, limit, reverse)

SpecStore == Init /\ [][NextStore]_vars

(***************************************************************************)
(* Properties.                                                             *)
(***************************************************************************)
Min(a, b) == IF a <= b THEN a ELSE b

StrictlyIncreasing(q) == \A i \in 1..(Len(q) - 1) : q[i] < q[i + 1]

\* C1: for every non-empty first message and every text the upstream model
\* returns, parse_initial_message returns a pair of non-empty strings and
\* does not raise.
C1_ExtractionTotal ==
  (arg.fn = "parse" /\ res # NoResult /\ arg.outcome.kind = "text")
    => /\ res.kind = "ok"
       /\ res.value.topic # <<>>
       /\ res.value.stance # <<>>

\* C2 as stated: cleaning removes at most one listed prefix from any input.
C2_AtMostOnePrefix ==
  (arg.fn = "clean" /\ res # NoResult) => Len(res.stripped) <= 1

\* the text left after removing, from the trimmed raw text, the listed
\* prefixes at the list positions q[1..n] one after the other
RECURSIVE AfterRemoving(_, _, _)
AfterRemoving(raw, q, n) ==
  IF n = 0 THEN Strip(raw)
  ELSE Strip(Drop(AfterRemoving(raw, q, n - 1), Len(prefixes_to_remove[q[n]])))

\* C2 as amended: cleaning tries the listed prefixes in list order in one
\* pass, so each listed prefix is removed at most once and the removed ones
\* come in list order; every removed prefix led the text when it was removed,
\* and the result is the text that is left.
C2_EachPrefixAtMostOnce ==
  (arg.fn = "clean" /\ res # NoResult) =>
    /\ StrictlyIncreasing(res.stripped)
    /\ Len(res.stripped) <= Len(prefixes_to_remove)
    /\ \A n \in 1..Len(res.stripped) :
         StartsWith(AfterRemoving(arg.raw, res.stripped, n - 1),
                    prefixes_to_remove[res.stripped[n]])
    /\ res.kind = "ok" =>
         res.value = AfterRemoving(arg.raw, res.stripped, Len(res.stripped))

\* C2 witness: two listed prefixes in a row were both removed.
C2_Witness ==
  /\ arg.fn = "clean"
  /\ res # NoResult
  /\ res.kind = "ok"
  /\ Len(res.stripped) = 2
  /\ StartsWith(arg.raw, prefixes_to_remove[1] \o prefixes_to_remove[2])

\* the lines of a prompt
PromptLines(prompt) == SplitAll(prompt, "\n")

\* C3: the turns rendered into a prompt are the last k turns of the history
\* in their original order when it has more than k, all of it otherwise, and
\* no history block at all when it is empty.
C3_WindowIsLastK ==
  (arg.fn = "window" /\ res # NoResult) =>
    LET H == arg.history
        n == Len(H)
        m == Min(res.k, n)
        lines == PromptLines(res.prompt)
        tail == IF res.k = PromptWindow THEN 2 ELSE 0
    IN /\ n = 0 => Len(lines) = (IF tail = 0 THEN 1 ELSE tail)
       /\ n > 0 =>
            /\ Len(lines) = m + 2 + tail
            /\ lines[1] = ConversationHistoryHeader
            /\ \A i \in 1..m : lines[i + 1] = RenderTurn(H[n - m + i])
            /\ lines[m + 2] = <<>>

\* C3 witness: a prompt was built from a history longer than both windows.
C3_Witness ==
  /\ arg.fn = "window"
  /\ res # NoResult
  /\ Len(arg.history) > PromptWindow

\* C5: generate_response either returns text that is non-empty and trimmed,
\* or raises OpenAIError; a raising call, a completion without choices and
\* a completion without content all surface as OpenAIError.
C5_TextOrGenerationError ==
  (arg.fn = "generate" /\ res # NoResult) =>
    /\ \/ /\ res.kind = "ok"
          /\ res.value # <<>>
          /\ Strip(res.value) = res.value
       \/ res = Raise("OpenAIError")
    /\ arg.outcome.kind # "text" => res = Raise("OpenAIError")

\* C5 witness: the underlying call raised and OpenAIError came out.
C5_Witness ==
  /\ arg.fn = "generate"
  /\ arg.outcome.kind = "raise"
  /\ res = Raise("OpenAIError")

\* every value get_openai_provider has returned to any thread
ReturnedBy(t) ==
  {caller[t].returned[i].value :
     i \in {j \in 1..Len(caller[t].returned) : caller[t].returned[j].kind = "ok"}}

ReturnedInstances == UNION {ReturnedBy(t) : t \in Callers}

ReturnedCount ==
  Cardinality({<<t, i>> \in Callers \X (1..(MaxCalls + 1)) :
                 i <= Len(caller[t].returned) /\ caller[t].returned[i].kind = "ok"})

\* C8: in a sequence of get_openai_provider calls with no reset, the
\* provider is constructed once, by the first call, and every call returns
\* that instance.
C8_ConstructedOnceSequentially ==
  (resets = 0 /\ ReturnedCount > 0) =>
    /\ Len(built) = 1
    /\ built[1].call = 1
    /\ ReturnedInstances = {Instance(1)}

\* C8 witness: two calls have returned and one instance was constructed.
C8_Witness ==
  /\ serial
  /\ resets = 0
  /\ ReturnedCount >= 2
  /\ Len(built) = 1

\* C9: when threads make their first get_openai_provider calls concurrently
\* and nothing resets, one instance is constructed and all threads get it.
C9_OneInstanceUnderConcurrency ==
  resets = 0 =>
    /\ Len(built) <= 1
    /\ Cardinality(ReturnedInstances) <= 1

\* the messages a request stored, in the order of storage
StoredBy(rid) == SelectSeq(messages, LAMBDA m : m.request = rid)

\* the conversations a request created
CreatedBy(rid) ==
  {c \in 1..Len(conversations) : conversations[c].request = rid}

\* C4 (as stated): a request whose user_message is the empty string is
\* rejected before any outbound extraction or generation call is made, and it
\* creates no conversation and stores no message.
C4_EmptyMessageRejected ==
  \A t \in Threads :
    (th[t].rid # 0 /\ th[t].data_message = <<>>) =>
      /\ th[t].calls = <<>>
      /\ CreatedBy(th[t].rid) = {}
      /\ StoredBy(th[t].rid) = <<>>

\* C6: a turn answered 200 has appended exactly two messages to its
\* conversation, the user's message and then the bot's reply; after a first
\* turn the conversation it created holds the extracted topic and stance as
\* its creation values.
C6_TurnAppendsUserThenBot ==
  \A t \in Threads :
    (th[t].pc = "done" /\ th[t].status = 200) =>
      LET mine == StoredBy(th[t].rid)
          c == th[t].conversation_id
      IN /\ Len(mine) = 2
         /\ mine[1] = [conversation |-> c, role |-> "user",
                       content |-> th[t].user_message, request |-> th[t].rid]
         /\ mine[2] = [conversation |-> c, role |-> "bot",
                       content |-> th[t].response, request |-> th[t].rid]
         /\ th[t].response # <<>>
         /\ th[t].first =>
              /\ CreatedBy(th[t].rid) = {c}
              /\ conversations[c].created = th[t].extracted

\* a first turn and then a continuing turn on the same conversation have both
\* been answered 200: the conversation holds four messages
C6_Witness ==
  \E t \in Threads :
    /\ th[t].pc = "done" /\ th[t].status = 200 /\ ~th[t].first
    /\ Len(th[t].history) >= 2
    /\ Len(ConversationMessages(th[t].conversation_id)) = 4

\* C7 (as stated): when the generation call of a turn fails, the stored
\* messages are those from before the request: the failed turn has stored
\* nothing.
C7_FailedTurnStoresNothing ==
  \A t \in Threads :
    th[t].genFailed =>
      /\ th[t].pc = "done" /\ th[t].status = 500
      /\ StoredBy(th[t].rid) = <<>>

\* the generation calls a request has made
GenerationCalls(t) == SelectSeq(th[t].calls, LAMBDA k : k.kind = "generate")

\* C10: a conversation no collaborator has edited holds the topic and the
\* stance it was created with, and the system prompt of every generation
\* call made for it carries that topic in its topic field and that stance in
\* its stance field.
C10_TopicAndStanceFixed ==
  /\ \A c \in 1..Len(conversations) :
       ~conversations[c].edited =>
         /\ conversations[c].topic = conversations[c].created.topic
         /\ conversations[c].bot_stance = conversations[c].created.bot_stance
  /\ \A t \in Threads :
       LET c == th[t].conversation_id
       IN (ConvExists(c) /\ ~conversations[c].edited) =>
            \A i \in 1..Len(GenerationCalls(t)) :
              /\ GenerationCalls(t)[i].system[2] = conversations[c].created.topic
              /\ GenerationCalls(t)[i].system[4] = conversations[c].created.bot_stance

\* a continuing turn on an unedited conversation, whose topic and stance
\* differ, has made its generation call
C10_Witness ==
  \E t \in Threads :
    LET c == th[t].conversation_id
    IN /\ ConvExists(c) /\ ~conversations[c].edited
       /\ ~th[t].first /\ th[t].view = "debate"
       /\ Len(th[t].history) >= 2
       /\ Len(GenerationCalls(t)) = 1
       /\ conversations[c].topic # conversations[c].bot_stance

\* the text before the first '|' of a reply and the text after it
BeforeBar(r) == Take(r, IndexOf(r, "|", 1) - 1)
AfterBar(r) == Drop(r, IndexOf(r, "|", 1))

\* a field as the extraction prompt means it: non-empty, trimmed, without the
\* text of its own label
PlainField(f, label) == f # <<>> /\ Strip(f) = f /\ ~Contains(f, label)

\* C11: for a reply that contains both labels (and a '|'), the result is
\* the text before the first '|' without 'TOPIC:' and the text after it
\* without 'STANCE:', both trimmed, when both are non-empty; for the reply
\* 'TOPIC: t | STANCE: s' with plain fields, t without '|', the result is
\* exactly (t, s), every '|' of s included.
C11_SplitOnFirstBar ==
  (arg.fn = "parse" /\ res # NoResult /\ arg.outcome.kind = "text") =>
    LET r == Strip(arg.outcome.text)
        topic == Strip(Remove(BeforeBar(r), TOPIC))
        stance == Strip(Remove(AfterBar(r), STANCE))
    IN /\ (/\ Contains(r, TOPIC) /\ Contains(r, STANCE) /\ Contains(r, <<"|">>)
           /\ topic # <<>> /\ stance # <<>>)
            => res = Ok([topic |-> topic, stance |-> stance])
       /\ (/\ arg.labelled
           /\ PlainField(arg.t, TOPIC) /\ ~Contains(arg.t, <<"|">>)
           /\ PlainField(arg.s, STANCE))
            => res = Ok([topic |-> arg.t, stance |-> arg.s])

\* the reply 'TOPIC: t | STANCE: t|' has been parsed: the second '|' is
\* part of the stance
C11_Witness ==
  /\ arg.fn = "parse" /\ arg.labelled /\ res # NoResult
  /\ arg.t = <<"t">> /\ arg.s = <<"t", "|">>
  /\ res = Ok([topic |-> <<"t">>, stance |-> <<"t", "|">>])

\* C12 (as stated): when the reply lacks a label, or a parsed half is empty,
\* extraction (in either provider) returns the generic topic label and the
\* stance 'I disagree with: ' + a prefix of the message + '...', whatever
\* the reply says.
C12_FallbackFromMessageOnly ==
  (arg.fn \in {"parse", "legacy_parse"} /\ res # NoResult
     /\ arg.outcome.kind = "text") =>
    LET r == Strip(arg.outcome.text)
        lacksLabel == ~Contains(r, TOPIC) \/ ~Contains(r, STANCE)
        emptyHalf == /\ ~lacksLabel /\ Contains(r, <<"|">>)
                     /\ \/ Strip(Remove(BeforeBar(r), TOPIC)) = <<>>
                        \/ Strip(Remove(AfterBar(r), STANCE)) = <<>>
    IN (lacksLabel \/ emptyHalf) =>
         /\ res.kind = "ok"
         /\ res.value.topic = GeneralDebate
         /\ \E n \in 0..Len(arg.message) :
              res.value.stance = IDisagreeWith \o Take(arg.message, n) \o Ellipsis

\* some listed prefix leads the text and only whitespace follows it
OnlyPrefix(text, prefixes) ==
  \E i \in 1..Len(prefixes) :
    StartsWith(text, prefixes[i]) /\ Strip(Drop(text, Len(prefixes[i]))) = <<>>

\* C13: in both providers cleaning raises the empty-response error for a
\* raw text that is empty or whitespace-only and for a raw text that is a
\* listed prefix followed only by whitespace, and a text it returns is never
\* empty or whitespace-only.
C13_EmptyResponseRejected ==
  /\ (arg.fn = "clean" /\ res # NoResult) =>
       /\ (Strip(arg.raw) = <<>> \/ OnlyPrefix(Strip(arg.raw), prefixes_to_remove))
            => (res.kind = "raise" /\ res.exc = "OpenAIError")
       /\ res.kind = "ok" => Strip(res.value) # <<>>
  /\ (arg.fn = "legacy_clean" /\ res # NoResult) =>
       /\ (Strip(arg.raw) = <<>> \/ OnlyPrefix(arg.raw, LegacyPrefixes))
            => res = Raise("AIProviderError")
       /\ res.kind = "ok" => Strip(res.value) # <<>>

\* 'Bot:' followed by a space has been rejected by the legacy provider
C13_Witness ==
  /\ arg = [fn |-> "legacy_clean", raw |-> <<"B", "o", "t", ":", " ">>]
  /\ res = Raise("AIProviderError")

\* no listed prefix leads the text
NoListedPrefix(text) ==
  \A i \in 1..Len(prefixes_to_remove) : ~StartsWith(text, prefixes_to_remove[i])

\* the text ends with the given suffix
EndsWith(text, suffix) ==
  /\ Len(suffix) <= Len(text)
  /\ Drop(text, Len(text) - Len(suffix)) = suffix

\* C14 (as stated): cleaning returns the text after a leading listed prefix,
\* trimmed, and returns a text that does not start with a listed prefix as
\* it is (up to surrounding whitespace); nothing but the one leading prefix
\* is removed.
C14_OnlyTheLeadingPrefix ==
  (arg.fn = "clean" /\ res # NoResult /\ res.kind = "ok") =>
    LET text == Strip(arg.raw)
    IN /\ NoListedPrefix(text) => res.value = text
       /\ \A i \in 1..Len(prefixes_to_remove) :
            StartsWith(text, prefixes_to_remove[i]) =>
              res.value = Strip(Drop(text, Len(prefixes_to_remove[i])))

\* C14 (amended): cleaning trims the text; a trimmed text led by no listed
\* prefix is returned as it is; a leading listed prefix is removed together
\* with the whitespace around it, and when what follows is led by no listed
\* prefix that remainder is the result; in every case the result is the end
\* of the trimmed text, so a listed prefix (or a differently cased one)
\* further inside the text stays.
C14_LeadingPrefixesOnly ==
  (arg.fn = "clean" /\ res # NoResult /\ res.kind = "ok") =>
    LET text == Strip(arg.raw)
    IN /\ NoListedPrefix(text) => res.value = text
       /\ \A i \in 1..Len(prefixes_to_remove) :
            LET rest == Strip(Drop(text, Len(prefixes_to_remove[i])))
            IN (StartsWith(text, prefixes_to_remove[i]) /\ NoListedPrefix(rest))
                 => res.value = rest
       /\ EndsWith(text, res.value)
       /\ Strip(res.value) = res.value

\* 'hBot:' has been cleaned: the listed prefix inside the text stays
C14_Witness ==
  /\ arg = [fn |-> "clean", raw |-> <<"h", "B", "o", "t", ":">>]
  /\ res # NoResult
  /\ res.kind = "ok"
  /\ res.value = <<"h", "B", "o", "t", ":">>

\* C15: a request that names a conversation_id no stored conversation has
\* fails (500 from the debate endpoint; 404 from the chatbot endpoint, or
\* 400 when its message is empty as well), has
\* stored no message, and has built no prompt and made no outbound call; no
\* message belongs to the unknown id.
C15_UnknownConversationFails ==
  /\ \A t \in Threads :
       (th[t].rid # 0 /\ th[t].conversation_id = UnknownId) =>
         /\ th[t].calls = <<>>
         /\ th[t].history = <<>>
         /\ StoredBy(th[t].rid) = <<>>
         /\ th[t].pc # "done" => th[t].pc = "continue_debate"
         /\ th[t].pc = "done" =>
              th[t].status = IF th[t].view = "debate" THEN 500
                             ELSE IF Strip(th[t].data_message) = <<>> THEN 400
                             ELSE 404
  /\ \A i \in 1..Len(messages) : messages[i].conversation # UnknownId

\* a debate request naming an unknown conversation has failed while another
\* conversation holds messages
C15_Witness ==
  \E t \in Threads :
    /\ th[t].view = "debate" /\ th[t].conversation_id = UnknownId
    /\ th[t].user_message # <<>>
    /\ th[t].pc = "done" /\ th[t].status = 500
    /\ Len(messages) = 2

\* the kinds of the outbound calls a request has made, in order
CallKinds(t) == [i \in 1..Len(th[t].calls) |-> th[t].calls[i].kind]

\* C16: on a first turn the extraction call comes first, the conversation
\* is then stored with the extracted topic and stance, and only then the
\* prompt is built and the generation call made; no request has made a
\* generation call for a conversation that is not stored.
C16_ExtractThenStoreThenGenerate ==
  \A t \in Threads :
    LET c == th[t].conversation_id
        mine == CreatedBy(th[t].rid)
    IN /\ (th[t].rid # 0 /\ mine # {}) =>
            /\ th[t].first /\ mine = {c}
            /\ CallKinds(t) \in {<<"parse">>, <<"parse", "generate">>}
            /\ conversations[c].created = th[t].extracted
       /\ (th[t].rid # 0 /\ (c = NoId \/ th[t].first)) =>
            /\ CallKinds(t) \in {<<>>, <<"parse">>, <<"parse", "generate">>}
            /\ "generate" \in {CallKinds(t)[i] : i \in 1..Len(th[t].calls)}
                 => mine = {c}
       /\ GenerationCalls(t) # <<>> =>
            /\ ConvExists(c)
            /\ GenerationCalls(t)[1].system[2] = th[t].topic
            /\ GenerationCalls(t)[1].system[4] = th[t].bot_stance

\* a first turn of the debate endpoint has made its generation call
C16_Witness ==
  \E t \in Threads :
    /\ th[t].first /\ th[t].view = "debate"
    /\ CallKinds(t) = <<"parse", "generate">>
    /\ CreatedBy(th[t].rid) = {th[t].conversation_id}

\* C17: a request makes at most one extraction call and at most one
\* generation call, a continuing turn makes no extraction call; a failed
\* call is not made again, and a reply is never produced without its call:
\* a first turn answered 200 made exactly two calls, a continuing one exactly
\* one.
C17_OneCallPerInvocation ==
  \A t \in Threads :
    /\ CallKinds(t) \in {<<>>, <<"parse">>, <<"generate">>, <<"parse", "generate">>}
    /\ (th[t].rid # 0 /\ ~th[t].first /\ th[t].conversation_id # NoId)
         => CallKinds(t) \in {<<>>, <<"generate">>}
    /\ th[t].genFailed =>
         (th[t].pc = "done" /\ Len(GenerationCalls(t)) = 1)
    /\ th[t].response # <<>> => Len(GenerationCalls(t)) = 1
    /\ (th[t].pc = "done" /\ th[t].status = 200) =>
         CallKinds(t) = IF th[t].first THEN <<"parse", "generate">>
                        ELSE <<"generate">>

\* a continuing turn whose only generation call failed has ended
C17_Witness ==
  \E t \in Threads :
    /\ ~th[t].first /\ th[t].view = "debate"
    /\ th[t].genFailed /\ th[t].pc = "done"
    /\ CallKinds(t) = <<"generate">>

\* everything get_openai_provider has given its callers
AllReturned ==
  UNION {{caller[t].returned[i] : i \in 1..Len(caller[t].returned)} : t \in Callers}

\* C18: while the credential is absent and the test-mode flag is off, every
\* get_openai_provider call ends with the configuration error, no instance
\* is ever built or assigned, and the global stays unset, so each later call
\* attempts the construction again; with the test-mode flag on, every
\* instance is built with the placeholder credential and calls return it.
C18_MissingCredentialFailsEachCall ==
  (resets = 0 /\ settings.OPENAI_API_KEY = None) =>
    IF settings.TESTING
    THEN /\ \A j \in 1..Len(built) : built[j].api_key = PlaceholderKey
         /\ \A e \in AllReturned :
              e.kind = "ok" /\ e.value.id \in 1..Len(built)
    ELSE /\ _openai_provider = NoProvider
         /\ built = <<>>
         /\ \A e \in AllReturned : e.kind = "raise" /\ e.value = "OpenAIError"
         /\ \A t \in Callers :
              caller[t].tmp = NoProvider /\ caller[t].pc \notin {"assign", "return"}

\* without a credential and outside test mode, one caller's second call has
\* failed like its first
C18_Witness ==
  /\ resets = 0 /\ settings.OPENAI_API_KEY = None /\ ~settings.TESTING
  /\ \E t \in Callers :
       /\ Len(caller[t].returned) = 2
       /\ caller[t].returned[2].kind = "raise"

\* C19: with calls made one after the other, every returned instance was
\* built after the latest reset that preceded the call, from the settings
\* in force then, and one instance is built per reset period, which the
\* later calls of the period reuse.
C19_ResetForcesReconstruction ==
  /\ \A e \in AllReturned :
       e.kind = "ok" =>
         /\ e.value.id \in 1..Len(built)
         /\ built[e.value.id].epoch = e.epoch
  /\ \A j \in 1..Len(built) :
       built[j].epoch = resets =>
         built[j].api_key = _initialize_openai(settings).value
  /\ \A j, k \in 1..Len(built) :
       built[j].epoch = built[k].epoch => j = k

\* an instance was returned before a configuration reload, and two calls
\* after it returned a second instance built with another credential
C19_Witness ==
  /\ serial /\ resets = 1 /\ Len(built) = 2
  /\ built[1].api_key # built[2].api_key
  /\ [kind |-> "ok", value |-> Instance(1), epoch |-> 0] \in AllReturned
  /\ \E t, u \in Callers :
       /\ t # u
       /\ \E i \in 1..Len(caller[t].returned) :
            caller[t].returned[i] = [kind |-> "ok", value |-> Instance(2), epoch |-> 1]
       /\ \E i \in 1..Len(caller[u].returned) :
            caller[u].returned[i] = [kind |-> "ok", value |-> Instance(2), epoch |-> 1]

\* C20: two turns handled by the same provider whose topic and stance are
\* equal (the token budget is the configured constant) have sent the same
\* system prompt, whatever their histories and user messages are.
C20_SystemPromptFromTopicAndStance ==
  \A t, u \in Threads :
    (/\ GenerationCalls(t) # <<>> /\ GenerationCalls(u) # <<>>
     /\ th[t].view = th[u].view
     /\ th[t].topic = th[u].topic
     /\ th[t].bot_stance = th[u].bot_stance)
      => GenerationCalls(t)[1].system = GenerationCalls(u)[1].system

\* two debate turns with the same topic and stance, different histories and
\* different user messages have both made their generation call
C20_Witness ==
  \E t, u \in Threads :
    /\ GenerationCalls(t) # <<>> /\ GenerationCalls(u) # <<>>
    /\ th[t].view = "debate" /\ th[u].view = "debate"
    /\ th[t].topic = th[u].topic /\ th[t].bot_stance = th[u].bot_stance
    /\ th[t].history # th[u].history
    /\ th[t].user_message # th[u].user_message
    /\ GenerationCalls(t)[1].user # GenerationCalls(u)[1].user

\* the line of a prompt for one turn: 'USER: ' or 'YOU: ' and the content
TurnLine(msg) ==
  IF msg.role = "user" THEN <<"U", "S", "E", "R", ":", " ">> \o msg.content
  ELSE <<"Y", "O", "U", ":", " ">> \o msg.content

\* C21 (as stated): the user prompt of either provider is the history block
\* (header, one labelled line per windowed turn in order, a blank line),
\* left out when the history is empty, followed by the current user message
\* under its 'CURRENT USER MESSAGE' header.
C21_UserPromptLayout ==
  (arg.fn = "window" /\ res # NoResult) =>
    LET H == arg.history
        n == Len(H)
        m == Min(res.k, n)
        lines == PromptLines(res.prompt)
        current == <<CurrentUserMessageHeader,
                     <<"U", "S", "E", "R", ":", " ">> \o arg.last_user_message>>
    IN lines = (IF n = 0 THEN <<>>
                ELSE <<ConversationHistoryHeader>>
                     \o [i \in 1..m |-> TurnLine(H[n - m + i])]
                     \o << <<>> >>)
               \o current

RolesOf(msgs) == [i \in 1..Len(msgs) |-> msgs[i].role]

\* C22: requests on the same conversation are not mutually excluded: a
\* request that has reached the read of the stored history, or one of its
\* two writes, can always take that step, wherever the other requests are,
\* the ones on the same conversation included.
C22_NoMutualExclusion ==
  \A t \in Threads :
    /\ th[t].pc = "read_history" => ENABLED ReadHistory(t)
    /\ th[t].pc = "save_user" => ENABLED SaveUserMessage(t)
    /\ th[t].pc = "save_bot" => ENABLED SaveBotMessage(t)

\* two requests continuing the stored conversation have read the same
\* history before either wrote, and their writes interleaved: the stored
\* order is user, bot, user, user, bot, bot
C22_Witness ==
  \E t, u \in Threads :
    /\ t # u
    /\ th[t].view = "debate" /\ th[u].view = "debate"
    /\ ~th[t].first /\ ~th[u].first
    /\ th[t].conversation_id = 1 /\ th[u].conversation_id = 1
    /\ th[t].status = 200 /\ th[u].status = 200
    /\ th[t].history = HistoryOf(StoredMessages)
    /\ th[u].history = th[t].history
    /\ RolesOf(ConversationMessages(1))
         = <<"user", "bot", "user", "user", "bot", "bot">>

\* C23: every stored message belongs to an existing conversation, and a
\* step that deletes a conversation removes exactly the messages of that
\* conversation: the messages of the others stay, in their order.
C23_MessagesBelongToConversations ==
  /\ [](\A i \in 1..Len(messages) : ConvExists(messages[i].conversation))
  /\ [][\A c \in 1..Len(conversations) :
          (~conversations[c].deleted /\ conversations'[c].deleted) =>
            messages' = SelectSeq(messages, LAMBDA m : m.conversation # c)]_vars

\* conversation 1 had messages when it was last queried and has been
\* deleted; the messages of conversation 2 are still stored
C23_Witness ==
  /\ arg.fn = "recent" /\ arg.conversation = 1 /\ Len(arg.stored) >= 1
  /\ Len(conversations) = 2
  /\ conversations[1].deleted
  /\ ConvExists(2)
  /\ Len(ConversationMessages(2)) >= 1
  /\ ConversationMessages(1) = <<>>

\* C24 (as stated): get_recent_messages returns min(limit, n) messages, the
\* most recently created ones whatever reverse is: newest first when
\* reverse is false, oldest first when it is true.
C24_MostRecentForBothOrders ==
  (arg.fn = "recent" /\ res # NoResult) =>
    LET n == Len(arg.stored)
        k == Min(arg.limit, n)
        newest == [i \in 1..k |-> arg.stored[n - k + i]]
    IN /\ Len(res.value) = k
       /\ res.value = IF arg.reverse THEN newest ELSE ReverseSeq(newest)

\* C25 (as stated): a first turn is all-or-nothing for the conversation
\* record: a finished first-turn request that failed after its extraction
\* succeeded has left no conversation behind, and every conversation a
\* finished request created holds a user message and a bot message of that
\* request.
C25_FirstTurnAllOrNothing ==
  \A t \in Threads :
    (th[t].pc = "done" /\ th[t].rid # 0) =>
      /\ (th[t].view = "debate" /\ th[t].status = 500) =>
           CreatedBy(th[t].rid) = {}
      /\ \A c \in CreatedBy(th[t].rid) :
           /\ \E i \in 1..Len(messages) :
                /\ messages[i].conversation = c
                /\ messages[i].request = th[t].rid
                /\ messages[i].role = "user"
           /\ \E i \in 1..Len(messages) :
                /\ messages[i].conversation = c
                /\ messages[i].request = th[t].rid
                /\ messages[i].role = "bot"

\* C26 (as stated): when the turns are executed one at a time, between two
\* turns the stored messages of every conversation alternate user, bot,
\* starting with user, and their number is even: every user message is
\* followed by a bot reply.
C26_StoredMessagesAlternate ==
  (\A t \in Threads : th[t].pc \in {"idle", "done", "off"}) =>
    \A c \in 1..Len(conversations) :
      LET M == ConversationMessages(c)
      IN /\ Len(M) % 2 = 0
         /\ \A i \in 1..Len(M) :
              M[i].role = IF i % 2 = 1 THEN "user" ELSE "bot"

\* the extraction call of the request thread t handles was made and gave
\* no topic and stance
ExtractionFailed(t) ==
  /\ th[t].calls # <<>>
  /\ th[t].calls[1].kind = "parse"
  /\ th[t].extracted = IdleThread.extracted

C28_CleaningIdempotent ==
  /\ (arg.fn = "clean" /\ res # NoResult /\ res.kind = "ok") =>
       /\ NoListedPrefix(res.value)
       /\ _post_process_response(res.value).kind = "ok"
       /\ _post_process_response(res.value).value = res.value
  /\ (arg.fn = "legacy_clean" /\ res # NoResult /\ res.kind = "ok") =>
       /\ \A i \in 1..Len(LegacyPrefixes) : ~StartsWith(res.value, LegacyPrefixes[i])
       /\ LegacyPostProcess(res.value) = Ok(res.value)

IsTurnLine(line) ==
  \/ StartsWith(line, <<"U", "S", "E", "R", ":", " ">>)
  \/ StartsWith(line, <<"Y", "O", "U", ":", " ">>)

\* C29 (as stated): the user prompt of every generation call holds the
\* request's own user message exactly once, as its last turn line
\* 'USER: <message>', with no message written after it: on the debate
\* endpoint the history in the prompt holds no message of the request and the
\* prompt appends it; on the chatbot endpoint the history in the prompt holds
\* one message of the request, the last one.
C29_CurrentMessageLastInPrompt ==
  \A t \in Threads :
    \A k \in 1..Len(th[t].calls) :
      th[t].calls[k].kind = "generate" =>
        LET turns == SelectSeq(PromptLines(th[t].calls[k].user), IsTurnLine)
            win == LastN(th[t].seen,
                         IF th[t].view = "debate" THEN PromptWindow ELSE BotWindow)
            own == {i \in 1..Len(win) : win[i] = th[t].rid}
        IN /\ turns # <<>>
           /\ turns[Len(turns)]
                = <<"U", "S", "E", "R", ":", " ">> \o th[t].user_message
           /\ IF th[t].view = "debate" THEN own = {} ELSE own = {Len(win)}

\* C30 (as stated): a request that names a stored conversation whose
\* is_active flag is false fails as not found once the conversation has been
\* looked up (404, or 500 from the debate endpoint, or 400 for an empty
\* chatbot message), makes no outbound call and stores no message; an
\* inactive conversation holds only the messages it had.
C30_InactiveConversationClosed ==
  /\ \A t \in Threads :
       LET c == th[t].conversation_id
       IN (/\ th[t].rid # 0
           /\ ~th[t].first
           /\ ConvExists(c)
           /\ ~conversations[c].is_active
           /\ th[t].pc # "continue_debate") =>
            /\ th[t].pc = "done"
            /\ th[t].status \in {400, 404, 500}
            /\ th[t].calls = <<>>
            /\ StoredBy(th[t].rid) = <<>>
  /\ \A i \in 1..Len(messages) :
       ~conversations[messages[i].conversation].is_active
         => messages[i].request = 0

====
